---- MODULE Spec2Model ----
(***************************************************************************)
(* Model of src/root_span_builder.rs: the RootSpanBuilder strategy of      *)
(* tracing-actix-web.  on_request_start builds the root span of a request, *)
(* on_request_end records the outcome of the request on that span.         *)
(*                                                                         *)
(* A Span is a handle into the store of the tracing backend; the store is  *)
(* the variable spans, and the handle of request r is r.  Every span keeps *)
(* the sequence of its record calls (log) next to its field values, so     *)
(* that "written once" can be told from "holds a value".                   *)
(* The subscriber is taken to have the span enabled: record on a disabled  *)
(* span is a no-op of the tracing library, outside this file.              *)
(***************************************************************************)
EXTENDS Integers, Sequences, FiniteSets, TLC

\* Number of requests the middleware handles concurrently.
NumRequests == 2

Requests == 1..NumRequests

(***************************************************************************)
(* Field values.  A span field holds nothing (tracing::field::Empty), an   *)
(* i32, a string, or a DisplayValue wrapping a string.                     *)
(***************************************************************************)
Empty == [kind |-> "empty", int |-> 0, str |-> ""]

I32(n) == [kind |-> "i32", int |-> n, str |-> ""]

Str(s) == [kind |-> "str", int |-> 0, str |-> s]

\* tracing::field::display(x): the value records as the Display text of x.
field_display(s) == [kind |-> "display", int |-> 0, str |-> s]

RequestFields ==
    {"http.method", "http.route", "http.flavor", "http.host", "http.client_ip",
     "http.user_agent", "http.target", "request_id", "trace_id", "otel.kind"}

OutcomeFields ==
    {"http.status_code", "otel.status_code", "exception.message", "exception.details"}

FieldNames == RequestFields \cup OutcomeFields

Levels == {"TRACE", "DEBUG", "INFO", "WARN", "ERROR"}

Builders == {"Default", "Trace", "Debug", "Info", "Warn", "Error"}

(***************************************************************************)
(* Inbound requests (ServiceRequest), by the attributes the span captures. *)
(***************************************************************************)
ServiceRequests ==
    { [method |-> "GET", route |-> "/users/{id}", flavor |-> "1.1",
       host |-> "example.org", client_ip |-> "10.0.0.1", user_agent |-> "curl",
       target |-> "/users/7", request_id |-> "req-a"],
      [method |-> "POST", route |-> "/orders", flavor |-> "2.0",
       host |-> "shop.example", client_ip |-> "10.0.0.2", user_agent |-> "firefox",
       target |-> "/orders?dry=1", request_id |-> "req-b"] }

NoRequest ==
    [method |-> "", route |-> "", flavor |-> "", host |-> "", client_ip |-> "",
     user_agent |-> "", target |-> "", request_id |-> ""]

(***************************************************************************)
(* Errors (actix_web::Error, seen as &dyn ResponseError): what fmt::Display*)
(* and fmt::Debug print for the error, and its ResponseError::status_code. *)
(***************************************************************************)
ErrorTexts ==
    { [display |-> "resource not found", debug |-> "NotFound { id: 7 }"],
      [display |-> "database unavailable", debug |-> "DbError(Timeout)"] }

\* StatusCode values around the class boundaries 400 and 500.
ErrorStatuses == {302, 399, 400, 404, 499, 500, 503}

Statuses == {200, 204, 302, 399, 400, 404, 499, 500, 503, 599}

Errors ==
    { [display |-> t.display, debug |-> t.debug, status |-> s] :
        t \in ErrorTexts, s \in ErrorStatuses }

NoError == [display |-> "", debug |-> "", status |-> 0]

\* format!("{}", response_error)
Display(response_error) == response_error.display

\* format!("{:?}", response_error)
Debug(response_error) == response_error.debug

\* ResponseError::status_code()
status_code_of(response_error) == response_error.status

(***************************************************************************)
(* Outcomes: Result<ServiceResponse<B>, Error>.  An Ok response carries    *)
(* its status and, optionally, the error it was built from.                *)
(***************************************************************************)
Ok(status, has_error, error) ==
    [tag |-> "Ok", status |-> status, has_error |-> has_error, error |-> error]

Err(error) == [tag |-> "Err", status |-> 0, has_error |-> TRUE, error |-> error]

NoOutcome == [tag |-> "None", status |-> 0, has_error |-> FALSE, error |-> NoError]

OutcomesOver(ss, es) ==
    { Ok(s, FALSE, NoError) : s \in ss }
      \cup { Ok(s, TRUE, e) : s \in ss, e \in es }
      \cup { Err(e) : e \in es }

Outcomes == OutcomesOver(Statuses, Errors)

\* The outcomes drawn when several requests are in flight.
ConcStatuses == {200, 404, 500}

ConcErrors == { e \in Errors : \/ e.status = 404 /\ e.display = "resource not found"
                               \/ e.status = 500 /\ e.display = "database unavailable" }

ConcOutcomes == OutcomesOver(ConcStatuses, ConcErrors)

(***************************************************************************)
(* Spans.                                                                  *)
(***************************************************************************)
NoSpan == [level |-> "NONE", fields |-> [f \in FieldNames |-> Empty], log |-> <<>>]

\* The span the root span macros build at the given level: the request
\* attributes are filled in, the outcome attributes are declared Empty.
make_root_span(level, request) ==
    [level |-> level,
     fields |->
        [f \in FieldNames |->
            CASE f = "http.method" -> Str(request.method)
              [] f = "http.route" -> Str(request.route)
              [] f = "http.flavor" -> Str(request.flavor)
              [] f = "http.host" -> Str(request.host)
              [] f = "http.client_ip" -> Str(request.client_ip)
              [] f = "http.user_agent" -> Str(request.user_agent)
              [] f = "http.target" -> Str(request.target)
              [] f = "request_id" -> Str(request.request_id)
              [] f = "trace_id" -> Str("")
              [] f = "otel.kind" -> Str("server")
              [] OTHER -> Empty],
     log |-> <<>>]

root_span(request) == make_root_span("INFO", request)

trace_root_span(request) == make_root_span("TRACE", request)

debug_root_span(request) == make_root_span("DEBUG", request)

info_root_span(request) == make_root_span("INFO", request)

warn_root_span(request) == make_root_span("WARN", request)

error_root_span(request) == make_root_span("ERROR", request)

\* A record call that writes into every span of the store.
record_shared(store, span, name, value) ==
    [q \in DOMAIN store |->
        [store[q] EXCEPT !.fields[name] = value,
                         !.log = Append(@, <<name, value>>)]]

\* span.record(name, &value): sets the field of the span the handle names.
record(store, span, name, value) ==
    [store EXCEPT ![span].fields[name] = value,
                  ![span].log = Append(@, <<name, value>>)]

\* is_client_error with the lower boundary left out.
is_client_error_exclusive(status_code) == 400 < status_code /\ status_code < 500

\* StatusCode::is_client_error()
is_client_error(status_code) == 400 <= status_code /\ status_code < 500

\* let code: i32 = status_code.as_u16().into();
as_i32(status_code) == I32(status_code % 65536)

\* handle_error with the Display and Debug texts recorded in each other's field.
handle_error_swapped(store, span, status_code, response_error) ==
    LET display == Display(response_error)
        debug == Debug(response_error)
        s1 == record(store, span, "exception.message", field_display(debug))
        s2 == record(s1, span, "exception.details", field_display(display))
        code == as_i32(status_code)
        s3 == record(s2, span, "http.status_code", code)
    IN  IF is_client_error(status_code)
        THEN record(s3, span, "otel.status_code", Str("OK"))
        ELSE record(s3, span, "otel.status_code", Str("ERROR"))

\* handle_error that reports ERROR for server errors (500-599) only.
handle_error_server_only(store, span, status_code, response_error) ==
    LET display == Display(response_error)
        debug == Debug(response_error)
        s1 == record(store, span, "exception.message", field_display(display))
        s2 == record(s1, span, "exception.details", field_display(debug))
        code == as_i32(status_code)
        s3 == record(s2, span, "http.status_code", code)
    IN  IF 500 <= status_code /\ status_code < 600
        THEN record(s3, span, "otel.status_code", Str("ERROR"))
        ELSE record(s3, span, "otel.status_code", Str("OK"))

\* handle_error that first marks the span OK and then overrides it.
handle_error_default_ok(store, span, status_code, response_error) ==
    LET display == Display(response_error)
        debug == Debug(response_error)
        s1 == record(store, span, "exception.message", field_display(display))
        s2 == record(s1, span, "exception.details", field_display(debug))
        code == as_i32(status_code)
        s3 == record(s2, span, "http.status_code", code)
        s4 == record(s3, span, "otel.status_code", Str("OK"))
    IN  IF is_client_error(status_code)
        THEN s4
        ELSE record(s4, span, "otel.status_code", Str("ERROR"))

\* handle_error that leaves otel.status_code alone unless the status is a
\* client error.
handle_error_no_else(store, span, status_code, response_error) ==
    LET display == Display(response_error)
        debug == Debug(response_error)
        s1 == record(store, span, "exception.message", field_display(display))
        s2 == record(s1, span, "exception.details", field_display(debug))
        code == as_i32(status_code)
        s3 == record(s2, span, "http.status_code", code)
    IN  IF is_client_error(status_code)
        THEN record(s3, span, "otel.status_code", Str("OK"))
        ELSE s3

\* fn handle_error(span, status_code, response_error)
handle_error(store, span, status_code, response_error) ==
    LET display == Display(response_error)
        debug == Debug(response_error)
        s1 == record(store, span, "exception.message", field_display(display))
        s2 == record(s1, span, "exception.details", field_display(debug))
        code == as_i32(status_code)
        s3 == record(s2, span, "http.status_code", code)
    IN  IF is_client_error(status_code)
        THEN record(s3, span, "otel.status_code", Str("OK"))
        ELSE record(s3, span, "otel.status_code", Str("ERROR"))

\* on_request_end that never looks at the error embedded in an Ok response.
on_request_end_ignore_embedded(store, span, outcome) ==
    IF outcome.tag = "Ok"
    THEN LET code == as_i32(outcome.status)
             s1 == record(store, span, "http.status_code", code)
         IN  record(s1, span, "otel.status_code", Str("OK"))
    ELSE LET response_error == outcome.error
         IN  handle_error(store, span, status_code_of(response_error), response_error)

\* on_request_end that takes the status of an embedded error from the error.
on_request_end_error_status(store, span, outcome) ==
    IF outcome.tag = "Ok"
    THEN IF outcome.has_error
         THEN handle_error(store, span, status_code_of(outcome.error), outcome.error)
         ELSE LET code == as_i32(outcome.status)
                  s1 == record(store, span, "http.status_code", code)
              IN  record(s1, span, "otel.status_code", Str("OK"))
    ELSE LET response_error == outcome.error
         IN  handle_error(store, span, status_code_of(response_error), response_error)

\* on_request_end that clears the exception fields of an error-free response.
on_request_end_clear_exception(store, span, outcome) ==
    IF outcome.tag = "Ok"
    THEN IF outcome.has_error
         THEN handle_error(store, span, outcome.status, outcome.error)
         ELSE LET code == as_i32(outcome.status)
                  s1 == record(store, span, "http.status_code", code)
                  s2 == record(s1, span, "otel.status_code", Str("OK"))
                  s3 == record(s2, span, "exception.message", field_display(""))
              IN  record(s3, span, "exception.details", field_display(""))
    ELSE LET response_error == outcome.error
         IN  handle_error(store, span, status_code_of(response_error), response_error)

\* DefaultRootSpanBuilder::on_request_end(span, outcome)
DefaultRootSpanBuilder_on_request_end(store, span, outcome) ==
    IF outcome.tag = "Ok"
    THEN IF outcome.has_error
         THEN \* use the status code already constructed for the outgoing response
              handle_error(store, span, outcome.status, outcome.error)
         ELSE LET code == as_i32(outcome.status)
                  s1 == record(store, span, "http.status_code", code)
              IN  record(s1, span, "otel.status_code", Str("OK"))
    ELSE LET response_error == outcome.error
         IN  handle_error(store, span, status_code_of(response_error), response_error)

DefaultRootSpanBuilder_on_request_start(request) == root_span(request)

TraceRootSpanBuilder_on_request_start(request) == trace_root_span(request)

\* A level builder that handles the outcome itself, terminal errors only.
level_on_request_end_own(store, span, outcome) ==
    IF outcome.tag = "Err"
    THEN handle_error(store, span, status_code_of(outcome.error), outcome.error)
    ELSE LET s1 == record(store, span, "http.status_code", as_i32(outcome.status))
         IN  record(s1, span, "otel.status_code", Str("OK"))

TraceRootSpanBuilder_on_request_end(store, span, outcome) ==
    DefaultRootSpanBuilder_on_request_end(store, span, outcome)

DebugRootSpanBuilder_on_request_start(request) == debug_root_span(request)

DebugRootSpanBuilder_on_request_end(store, span, outcome) ==
    DefaultRootSpanBuilder_on_request_end(store, span, outcome)

InfoRootSpanBuilder_on_request_start(request) == info_root_span(request)

InfoRootSpanBuilder_on_request_end(store, span, outcome) ==
    DefaultRootSpanBuilder_on_request_end(store, span, outcome)

WarnRootSpanBuilder_on_request_start(request) == warn_root_span(request)

WarnRootSpanBuilder_on_request_end(store, span, outcome) ==
    DefaultRootSpanBuilder_on_request_end(store, span, outcome)

ErrorRootSpanBuilder_on_request_start(request) == error_root_span(request)

ErrorRootSpanBuilder_on_request_end(store, span, outcome) ==
    DefaultRootSpanBuilder_on_request_end(store, span, outcome)

\* RootSpanBuilder::on_request_start of the builder b.
on_request_start(b, request) ==
    CASE b = "Default" -> DefaultRootSpanBuilder_on_request_start(request)
      [] b = "Trace" -> TraceRootSpanBuilder_on_request_start(request)
      [] b = "Debug" -> DebugRootSpanBuilder_on_request_start(request)
      [] b = "Info" -> InfoRootSpanBuilder_on_request_start(request)
      [] b = "Warn" -> WarnRootSpanBuilder_on_request_start(request)
      [] b = "Error" -> ErrorRootSpanBuilder_on_request_start(request)

\* RootSpanBuilder::on_request_end of the builder b.
on_request_end(b, store, span, outcome) ==
    CASE b = "Default" -> DefaultRootSpanBuilder_on_request_end(store, span, outcome)
      [] b = "Trace" -> TraceRootSpanBuilder_on_request_end(store, span, outcome)
      [] b = "Debug" -> DebugRootSpanBuilder_on_request_end(store, span, outcome)
      [] b = "Info" -> InfoRootSpanBuilder_on_request_end(store, span, outcome)
      [] b = "Warn" -> WarnRootSpanBuilder_on_request_end(store, span, outcome)
      [] b = "Error" -> ErrorRootSpanBuilder_on_request_end(store, span, outcome)

\* The verbosity each builder creates its span at.
LevelOf(b) ==
    CASE b = "Default" -> "INFO"
      [] b = "Trace" -> "TRACE"
      [] b = "Debug" -> "DEBUG"
      [] b = "Info" -> "INFO"
      [] b = "Warn" -> "WARN"
      [] b = "Error" -> "ERROR"

(***************************************************************************)
(* State: the builder the logger is instantiated with, and per request its *)
(* position, the inbound request, its span in the backend's store, and the *)
(* outcome handed to on_request_end.                                       *)
(***************************************************************************)
VARIABLES builder, pc, requests, spans, outcomes

vars == <<builder, pc, requests, spans, outcomes>>

Init ==
    /\ builder \in Builders
    /\ pc = [r \in Requests |-> "idle"]
    /\ requests = [r \in Requests |-> NoRequest]
    /\ spans = [r \in Requests |-> NoSpan]
    /\ outcomes = [r \in Requests |-> NoOutcome]

\* The middleware receives a request and calls on_request_start.
RequestStart(r, request) ==
    /\ pc[r] = "idle"
    /\ requests' = [requests EXCEPT ![r] = request]
    /\ spans' = [spans EXCEPT ![r] = on_request_start(builder, request)]
    /\ pc' = [pc EXCEPT ![r] = "started"]
    /\ UNCHANGED <<builder, outcomes>>

\* The inner service has produced the outcome; the middleware calls
\* on_request_end with the span of the request.
RequestEnd(r, outcome) ==
    /\ pc[r] = "started"
    /\ outcomes' = [outcomes EXCEPT ![r] = outcome]
    /\ spans' = on_request_end(builder, spans, r, outcome)
    /\ pc' = [pc EXCEPT ![r] = "ended"]
    /\ UNCHANGED <<builder, requests>>

\* Several requests in flight.
Next ==
    \E r \in Requests :
        \/ \E request \in ServiceRequests : RequestStart(r, request)
        \/ \E outcome \in ConcOutcomes : RequestEnd(r, outcome)

Spec == Init /\ [][Next]_vars

\* One request, every status and error.
NextWide ==
    \/ \E request \in ServiceRequests : RequestStart(1, request)
    \/ \E outcome \in Outcomes : RequestEnd(1, outcome)

SpecWide == Init /\ [][NextWide]_vars

TypeOK ==
    /\ builder \in Builders
    /\ pc \in [Requests -> {"idle", "started", "ended"}]
    /\ \A r \in Requests :
          /\ requests[r] \in ServiceRequests \cup {NoRequest}
          /\ outcomes[r] \in Outcomes \cup {NoOutcome}
          /\ spans[r].level \in Levels \cup {"NONE"}
          /\ DOMAIN spans[r].fields = FieldNames

(***************************************************************************)
(* Properties.                                                             *)
(***************************************************************************)
Ended(r) == pc[r] = "ended"

Field(r, name) == spans[r].fields[name]

\* The record calls made on the span of r that name the field.
Writes(span, name) == { i \in 1..Len(span.log) : span.log[i][1] = name }

ClientErrors == 400..499

ServerErrors == 500..599

IsI32(v, n) == v.kind = "i32" /\ v.int = n

IsStr(v, s) == v.kind = "str" /\ v.str = s

IsDisplay(v, s) == v.kind = "display" /\ v.str = s

\* C1 as stated: after on_request_end with an Ok(response) of status S the
\* span has http.status_code = S and otel.status_code = "OK", with or
\* without an embedded error.
C1_OkAlwaysOK ==
    \A r \in Requests :
        (Ended(r) /\ outcomes[r].tag = "Ok") =>
            /\ IsI32(Field(r, "http.status_code"), outcomes[r].status)
            /\ IsStr(Field(r, "otel.status_code"), "OK")

\* C1 as amended: after on_request_end with an Ok(response) of status S the
\* span has http.status_code = S; otel.status_code is "OK" when the response
\* carries no embedded error or S is a client error (400-499), and "ERROR"
\* when it carries an embedded error and S is not a client error.
C1_OkStatus ==
    \A r \in Requests :
        (Ended(r) /\ outcomes[r].tag = "Ok") =>
            /\ IsI32(Field(r, "http.status_code"), outcomes[r].status)
            /\ IF outcomes[r].has_error /\ outcomes[r].status \notin ClientErrors
               THEN IsStr(Field(r, "otel.status_code"), "ERROR")
               ELSE IsStr(Field(r, "otel.status_code"), "OK")

\* An Ok response of status 500 with an embedded error has been recorded.
C1_Witness ==
    \E r \in Requests :
        /\ Ended(r) /\ outcomes[r].tag = "Ok" /\ outcomes[r].has_error
        /\ outcomes[r].status = 500
        /\ IsStr(Field(r, "otel.status_code"), "ERROR")

\* C2: after on_request_end with Err(error) whose response-error status is S
\* the span has http.status_code = S, and otel.status_code = "OK" if S is in
\* 400..499 and "ERROR" for every other S.
C2_ErrStatus ==
    \A r \in Requests :
        (Ended(r) /\ outcomes[r].tag = "Err") =>
            /\ IsI32(Field(r, "http.status_code"), outcomes[r].error.status)
            /\ IF outcomes[r].error.status \in ClientErrors
               THEN IsStr(Field(r, "otel.status_code"), "OK")
               ELSE IsStr(Field(r, "otel.status_code"), "ERROR")

\* A terminal error whose status is neither a client nor a server error has
\* been recorded as ERROR.
C2_Witness ==
    \E r \in Requests :
        /\ Ended(r) /\ outcomes[r].tag = "Err" /\ outcomes[r].error.status = 302
        /\ IsI32(Field(r, "http.status_code"), 302)
        /\ IsStr(Field(r, "otel.status_code"), "ERROR")

\* C3 as stated: over every outcome, otel.status_code is "ERROR" if and only
\* if the recorded http.status_code is a server error (500-599), and "OK"
\* otherwise.
C3_ErrorIffServerError ==
    \A r \in Requests :
        Ended(r) =>
            IF Field(r, "http.status_code").int \in ServerErrors
            THEN IsStr(Field(r, "otel.status_code"), "ERROR")
            ELSE IsStr(Field(r, "otel.status_code"), "OK")

\* C3 as amended: over every outcome, otel.status_code is "ERROR" if and only
\* if the outcome carries an error (terminal or embedded) and the recorded
\* http.status_code is not a client error (400-499); otherwise it is "OK".
C3_ErrorIffErrorNotClient ==
    \A r \in Requests :
        Ended(r) =>
            IF outcomes[r].has_error
               /\ Field(r, "http.status_code").int \notin ClientErrors
            THEN IsStr(Field(r, "otel.status_code"), "ERROR")
            ELSE IsStr(Field(r, "otel.status_code"), "OK")

\* A 500 response without an embedded error has been recorded as OK.
C3_Witness ==
    \E r \in Requests :
        /\ Ended(r) /\ outcomes[r].tag = "Ok" /\ ~outcomes[r].has_error
        /\ IsI32(Field(r, "http.status_code"), 500)
        /\ IsStr(Field(r, "otel.status_code"), "OK")

\* C4: for every outcome that carries an error (terminal or embedded), after
\* on_request_end exception.message is the Display text of the error and
\* exception.details its Debug text.
C4_ExceptionTexts ==
    \A r \in Requests :
        (Ended(r) /\ outcomes[r].has_error) =>
            /\ IsDisplay(Field(r, "exception.message"), outcomes[r].error.display)
            /\ IsDisplay(Field(r, "exception.details"), outcomes[r].error.debug)

\* An Ok response with an embedded error has had the texts recorded.
C4_Witness ==
    \E r \in Requests :
        /\ Ended(r) /\ outcomes[r].tag = "Ok" /\ outcomes[r].has_error
        /\ Field(r, "exception.message").str = "database unavailable"
        /\ Field(r, "exception.details").str = "DbError(Timeout)"

\* What DefaultRootSpanBuilder makes of the request and outcome of r.
DefaultSpanFor(r) ==
    LET started == [spans EXCEPT ![r] =
                        DefaultRootSpanBuilder_on_request_start(requests[r])]
    IN  IF Ended(r)
        THEN DefaultRootSpanBuilder_on_request_end(started, r, outcomes[r])[r]
        ELSE started[r]

\* C5: with any of the builders, the span after on_request_start, and after
\* on_request_end, has the same fields with the same values (and the same
\* record calls) as the span DefaultRootSpanBuilder produces for the same
\* request and outcome; the level is the builder's own.
C5_SameAsDefault ==
    \A r \in Requests :
        pc[r] # "idle" =>
            /\ DOMAIN spans[r].fields = DOMAIN DefaultSpanFor(r).fields
            /\ spans[r].fields = DefaultSpanFor(r).fields
            /\ spans[r].log = DefaultSpanFor(r).log
            /\ spans[r].level = LevelOf(builder)

\* A level builder other than the default's level has recorded an Ok
\* response with an embedded error.
C5_Witness ==
    \E r \in Requests :
        /\ builder = "Trace" /\ spans[r].level = "TRACE"
        /\ Ended(r) /\ outcomes[r].tag = "Ok" /\ outcomes[r].has_error
        /\ outcomes[r].status = 503

IsolatedStore(r) == [q \in Requests |-> IF q = r THEN spans[r] ELSE NoSpan]

\* C7: a call for one request leaves the span, request and outcome of every
\* other request as they are, and what on_request_end makes of the span of
\* r is what it makes of it with no other span in the store.
C7_Independent ==
    [][\A r \in Requests :
          /\ pc'[r] = pc[r] =>
                /\ spans'[r] = spans[r]
                /\ requests'[r] = requests[r]
                /\ outcomes'[r] = outcomes[r]
          /\ (pc[r] = "started" /\ pc'[r] = "ended") =>
                spans'[r] =
                    on_request_end(builder, IsolatedStore(r), r, outcomes'[r])[r]]_vars

\* Two requests were in flight together and ended with different outcomes.
C7_Witness ==
    \E r1, r2 \in Requests :
        /\ r1 # r2 /\ Ended(r1) /\ Ended(r2)
        /\ requests[r1] # requests[r2]
        /\ outcomes[r1].tag = "Err" /\ outcomes[r1].error.status = 500
        /\ outcomes[r2].tag = "Ok" /\ ~outcomes[r2].has_error
        /\ IsStr(Field(r1, "otel.status_code"), "ERROR")
        /\ IsStr(Field(r2, "otel.status_code"), "OK")

\* C8: after on_request_end with an Ok response without embedded error,
\* exception.message and exception.details are still unrecorded, and these
\* two fields are written only when the outcome carries an error.
C8_NoErrorNoException ==
    \A r \in Requests :
        Ended(r) =>
            /\ (outcomes[r].tag = "Ok" /\ ~outcomes[r].has_error) =>
                  /\ Field(r, "exception.message") = Empty
                  /\ Field(r, "exception.details") = Empty
            /\ (Writes(spans[r], "exception.message") # {}
                  \/ Writes(spans[r], "exception.details") # {}) =>
                  outcomes[r].has_error

\* An error-free response of status 404 has been recorded.
C8_Witness ==
    \E r \in Requests :
        /\ Ended(r) /\ outcomes[r].tag = "Ok" /\ ~outcomes[r].has_error
        /\ outcomes[r].status = 404
        /\ Field(r, "exception.message").kind = "empty"

\* C9: for an Ok response with an embedded error, http.status_code and the
\* OK/ERROR classification come from the status of the response, not from
\* the status_code() of the embedded error.
C9_ResponseStatusWins ==
    \A r \in Requests :
        (Ended(r) /\ outcomes[r].tag = "Ok" /\ outcomes[r].has_error) =>
            /\ Field(r, "http.status_code").int = outcomes[r].status
            /\ (Field(r, "otel.status_code").str = "OK")
                  <=> (outcomes[r].status \in ClientErrors)
            /\ (outcomes[r].error.status # outcomes[r].status) =>
                  Field(r, "http.status_code").int # outcomes[r].error.status

\* A 404 response built from an error whose own status is 500 is recorded
\* as 404 and OK.
C9_Witness ==
    \E r \in Requests :
        /\ Ended(r) /\ outcomes[r].tag = "Ok" /\ outcomes[r].has_error
        /\ outcomes[r].status = 404 /\ outcomes[r].error.status = 500
        /\ IsI32(Field(r, "http.status_code"), 404)
        /\ IsStr(Field(r, "otel.status_code"), "OK")

\* C10: on_request_end records http.status_code once and otel.status_code
\* once, records no field outside the four outcome fields, and leaves the
\* level, the request attributes, the earlier record calls and the request
\* as they were; the outcome it was given is the one on record.
C10_Frame ==
    [][\A r \in Requests :
          (pc[r] = "started" /\ pc'[r] = "ended") =>
              /\ Cardinality(Writes(spans'[r], "http.status_code")) = 1
              /\ Cardinality(Writes(spans'[r], "otel.status_code")) = 1
              /\ \A i \in 1..Len(spans'[r].log) :
                    spans'[r].log[i][1] \in OutcomeFields
              /\ \A f \in RequestFields :
                    spans'[r].fields[f] = spans[r].fields[f]
              /\ spans'[r].level = spans[r].level
              /\ requests'[r] = requests[r]
              /\ outcomes'[r] \in Outcomes]_vars

\* A terminal client error has been recorded with four record calls.
C10_Witness ==
    \E r \in Requests :
        /\ Ended(r) /\ outcomes[r].tag = "Err" /\ outcomes[r].error.status = 404
        /\ Len(spans[r].log) = 4
        /\ Field(r, "http.method") = Str(requests[r].method)
====
